---------------------------- MODULE Spec2Model ----------------------------
(***************************************************************************)
(* A model of libdistance: the Levenshtein, Damerau-Levenshtein and        *)
(* Hamming distances of src/libdistance.py (which wrap their result in a   *)
(* Distance object offering ratio()) and of src/libdistance/__init__.py    *)
(* (which return a bare integer).  The code is Python 2: range() returns a *)
(* fresh mutable list and a negative subscript counts from the end.        *)
(*                                                                         *)
(* A Python sequence (str) is a TLA+ sequence of one-character strings; a  *)
(* Python list of numbers is a function on 0..n-1.  Definitions named      *)
(* pkg_* model src/libdistance/__init__.py, the others src/libdistance.py. *)
(***************************************************************************)
EXTENDS Integers, Sequences, FiniteSets, TLC

VARIABLES lhs, rhs, pc, fn, d, i, j, reads, lowered, result, ratio

vars == <<lhs, rhs, pc, fn, d, i, j, reads, lowered, result, ratio>>

(* Longest input sequence the model draws. *)
MaxLen == 3

(* The elements the input sequences are made of. *)
Alphabet == {"A", "B", "C"}

Inputs == UNION {[1..n -> Alphabet] : n \in 0..MaxLen}

---------------------------------------------------------------------------
(* Python primitives *)

(* s[k] on a Python sequence: a negative subscript counts from the end. *)
Index(s, k) == IF k >= 0 THEN s[k + 1] ELSE s[Len(s) + k + 1]

(* range(n) as a Python 2 list: [0, 1, ..., n-1]. *)
Range(n) == [k \in 0..(n - 1) |-> k]

(* list[-1] *)
PyLast(list) == list[Cardinality(DOMAIN list) - 1]

(* min(a, b, c) *)
Min3(a, b, c) == IF a <= b /\ a <= c THEN a ELSE IF b <= c THEN b ELSE c

(* min(a, b) *)
Min2(a, b) == IF a <= b THEN a ELSE b

---------------------------------------------------------------------------
(* class Distance *)

Distance(distance, l, r) ==
    [kind |-> "Distance", distance |-> distance, lhs |-> l, rhs |-> r]

(* Distance.ratio: (2.0 * distance) / (len(lhs) + len(rhs)).  The quotient *)
(* of the two floats is kept as the exact fraction num/den (both are small *)
(* integers, exactly representable, and IEEE division is monotone, so the  *)
(* float is <= 1.0 exactly when num <= den); a zero divisor raises         *)
(* ZeroDivisionError.                                                      *)
Ratio(self) ==
    IF Len(self.lhs) + Len(self.rhs) = 0
    THEN [kind |-> "ZeroDivisionError"]
    ELSE [kind |-> "float", num |-> 2 * self.distance,
          den |-> Len(self.lhs) + Len(self.rhs)]

---------------------------------------------------------------------------
(* hamming *)

(* sum(l != r for l, r in zip(lhs, rhs)) from position k on (1-based); zip *)
(* stops at the end of the shorter sequence.                               *)
RECURSIVE SumDiffer(_, _, _)
SumDiffer(l, r, k) ==
    IF k > Len(l) \/ k > Len(r) THEN 0
    ELSE (IF l[k] # r[k] THEN 1 ELSE 0) + SumDiffer(l, r, k + 1)

(* hamming without the length test: zip silently truncates. *)
hamming_NoLengthTest(l, r) == Distance(SumDiffer(l, r, 1), l, r)

hamming(l, r) ==
    IF Len(l) # Len(r) THEN [kind |-> "IndexError"]
    ELSE Distance(SumDiffer(l, r, 1), l, r)

pkg_hamming(l, r) ==
    IF Len(l) # Len(r) THEN [kind |-> "IndexError"]
    ELSE [kind |-> "int", distance |-> SumDiffer(l, r, 1)]

---------------------------------------------------------------------------
(* levenshtein of src/libdistance.py: two rows, swapped after each row *)

(* LevCell without the substitution neighbour shadow[j-1]. *)
LevCell_NoSubstitution(current, shadow, a, b, l, r) ==
    LET cost == IF Index(l, a - 1) = Index(r, b - 1) THEN 0 ELSE 1
    IN  cost + Min2(current[b - 1], shadow[b])

(* current[j] = cost + min(current[j-1], shadow[j], shadow[j-1]) *)
LevCell(current, shadow, a, b, l, r) ==
    LET cost == IF Index(l, a - 1) = Index(r, b - 1) THEN 0 ELSE 1
    IN  cost + Min3(current[b - 1], shadow[b], shadow[b - 1])

(* for j in range(1, len(rhs) + 1) *)
RECURSIVE LevRow(_, _, _, _, _, _)
LevRow(current, shadow, a, b, l, r) ==
    IF b > Len(r) THEN current
    ELSE LevRow([current EXCEPT ![b] = LevCell(current, shadow, a, b, l, r)],
                shadow, a, b + 1, l, r)

(* LevSeed without the assignment: column 0 keeps its stale value. *)
LevSeed_Missing(current, a) == current

(* current[0] = i at the head of each outer iteration *)
LevSeed(current, a) == [current EXCEPT ![0] = a]

(* for i in range(1, len(lhs) + 1): fill current, then swap the two rows. *)
(* The value is the final shadow.                                         *)
RECURSIVE LevRows(_, _, _, _, _)
LevRows(current, shadow, a, l, r) ==
    IF a > Len(l) THEN shadow
    ELSE LevRows(shadow, LevRow(LevSeed(current, a), shadow, a, 1, l, r),
                 a + 1, l, r)

levenshtein(l, r) ==
    Distance(PyLast(LevRows(Range(Len(r) + 1), Range(Len(r) + 1), 1, l, r)),
             l, r)

---------------------------------------------------------------------------
(* The matrix of damerau_levenshtein (both files) and of the package's     *)
(* levenshtein: len(rhs)+1 rows range(len(lhs)+1), then d[i][0] = i.       *)
Matrix(l, r) ==
    [a \in 0..Len(r) |-> [b \in 0..Len(l) |-> IF b = 0 THEN a ELSE b]]

(* The insert/delete/substitute step of a cell: the minimum of the three   *)
(* neighbours when the elements match, that minimum + 1 otherwise.         *)
BaseCell(m, a, b, l, r) ==
    LET low == Min3(m[a][b - 1], m[a - 1][b], m[a - 1][b - 1])
    IN  IF Index(r, a - 1) = Index(l, b - 1) THEN low ELSE low + 1

(* The cell after (a, b) in "for i in range(1, len(d)): for j in           *)
(* range(1, len(d[0]))".                                                   *)
NextCell(a, b, l) == IF b < Len(l) THEN <<a, b + 1>> ELSE <<a + 1, 1>>

(* The loops are over: no row left, or the rows have no column to visit. *)
LoopDone(a, l, r) == a > Len(r) \/ Len(l) = 0

(* levenshtein of src/libdistance/__init__.py: the full matrix *)
RECURSIVE pkg_LevLoop(_, _, _, _, _)
pkg_LevLoop(m, a, b, l, r) ==
    IF LoopDone(a, l, r) THEN m
    ELSE pkg_LevLoop([m EXCEPT ![a][b] = BaseCell(m, a, b, l, r)],
                     NextCell(a, b, l)[1], NextCell(a, b, l)[2], l, r)

pkg_levenshtein(l, r) ==
    [kind |-> "int",
     distance |-> PyLast(PyLast(pkg_LevLoop(Matrix(l, r), 1, 1, l, r)))]

---------------------------------------------------------------------------
(* damerau_levenshtein *)

(* Transposed without the two subscript guards. *)
Transposed_NoGuard(a, b, l, r) ==
    /\ Index(r, a - 1) = Index(l, b - 2)
    /\ Index(r, a - 2) = Index(l, b - 1)

(* src/libdistance.py:73                                                   *)
(*   j-2 >= 0 and i-2 >= 0 and rhs[i-1] == lhs[j-2] and rhs[i-2] == lhs[j-1] *)
Transposed(a, b, l, r) ==
    /\ b - 2 >= 0
    /\ a - 2 >= 0
    /\ Index(r, a - 1) = Index(l, b - 2)
    /\ Index(r, a - 2) = Index(l, b - 1)

(* The subscripts that test evaluates, left to right with short-circuit. *)
TransposedReads(a, b, l, r) ==
    IF ~(b - 2 >= 0 /\ a - 2 >= 0) THEN {}
    ELSE {<<"rhs", a - 1>>, <<"lhs", b - 2>>}
         \cup (IF Index(r, a - 1) = Index(l, b - 2)
               THEN {<<"rhs", a - 2>>, <<"lhs", b - 1>>} ELSE {})

(* src/libdistance/__init__.py:44                                          *)
(*   rhs[i-1] == lhs[j-2] and rhs[i-2] == lhs[j-1]                         *)
pkg_Transposed(a, b, l, r) ==
    /\ Index(r, a - 1) = Index(l, b - 2)
    /\ Index(r, a - 2) = Index(l, b - 1)

pkg_TransposedReads(a, b, l, r) ==
    {<<"rhs", a - 1>>, <<"lhs", b - 2>>}
    \cup (IF Index(r, a - 1) = Index(l, b - 2)
          THEN {<<"rhs", a - 2>>, <<"lhs", b - 1>>} ELSE {})

(* list[k] on a Python list: a negative subscript counts from the end. *)
PyAt(list, k) == IF k >= 0 THEN list[k] ELSE list[Cardinality(DOMAIN list) + k]

(* LookBack two rows and two columns back: d[i-2][j-2]. *)
LookBack_Two(m, a, b) == PyAt(PyAt(m, a - 2), b - 2)

(* The cell the transposition step compares with: d[i-1][j-1]. *)
LookBack(m, a, b) == m[a - 1][b - 1]

(* DLCell assigning the transposition cost instead of taking the minimum. *)
DLCell_Assign(m, a, b, l, r) ==
    IF Transposed(a, b, l, r)
    THEN LookBack(m, a, b) + 1
    ELSE BaseCell(m, a, b, l, r)

(* One iteration of the inner loop: the value written to d[i][j]. *)
DLCell(m, a, b, l, r) ==
    IF Transposed(a, b, l, r)
    THEN Min2(BaseCell(m, a, b, l, r), LookBack(m, a, b))
    ELSE BaseCell(m, a, b, l, r)

pkg_DLCell(m, a, b, l, r) ==
    IF pkg_Transposed(a, b, l, r)
    THEN Min2(BaseCell(m, a, b, l, r), LookBack(m, a, b))
    ELSE BaseCell(m, a, b, l, r)

RECURSIVE DLLoop(_, _, _, _, _)
DLLoop(m, a, b, l, r) ==
    IF LoopDone(a, l, r) THEN m
    ELSE DLLoop([m EXCEPT ![a][b] = DLCell(m, a, b, l, r)],
                NextCell(a, b, l)[1], NextCell(a, b, l)[2], l, r)

RECURSIVE pkg_DLLoop(_, _, _, _, _)
pkg_DLLoop(m, a, b, l, r) ==
    IF LoopDone(a, l, r) THEN m
    ELSE pkg_DLLoop([m EXCEPT ![a][b] = pkg_DLCell(m, a, b, l, r)],
                    NextCell(a, b, l)[1], NextCell(a, b, l)[2], l, r)

damerau_levenshtein(l, r) ==
    Distance(PyLast(PyLast(DLLoop(Matrix(l, r), 1, 1, l, r))), l, r)

pkg_damerau_levenshtein(l, r) ==
    [kind |-> "int",
     distance |-> PyLast(PyLast(pkg_DLLoop(Matrix(l, r), 1, 1, l, r)))]

---------------------------------------------------------------------------
(* The state machine: one call on a pair of inputs, then ratio() on the    *)
(* Distance it returned.  damerau_levenshtein runs one cell per step, so   *)
(* that the matrix and the subscripts it reads are visible.                *)

NoMatrix == Matrix(<<>>, <<>>)
NoValue  == [kind |-> "none"]

Init ==
    /\ lhs \in Inputs
    /\ rhs \in Inputs
    /\ pc = "start"
    /\ fn = "none"
    /\ d = NoMatrix
    /\ i = 0
    /\ j = 0
    /\ reads = {}
    /\ lowered = {}
    /\ result = NoValue
    /\ ratio = NoValue

Return(name, value) ==
    /\ pc = "start"
    /\ fn' = name
    /\ result' = value
    /\ pc' = "done"
    /\ UNCHANGED <<lhs, rhs, d, i, j, reads, lowered, ratio>>

CallLevenshtein == Return("levenshtein", levenshtein(lhs, rhs))

CallHamming == Return("hamming", hamming(lhs, rhs))

CallPkgLevenshtein == Return("pkg_levenshtein", pkg_levenshtein(lhs, rhs))

CallPkgHamming == Return("pkg_hamming", pkg_hamming(lhs, rhs))

(* Lines 64-66 (35-37): build the matrix and enter the loops. *)
Enter(name) ==
    /\ pc = "start"
    /\ fn' = name
    /\ d' = Matrix(lhs, rhs)
    /\ i' = 1
    /\ j' = 1
    /\ pc' = "loop"
    /\ UNCHANGED <<lhs, rhs, reads, lowered, result, ratio>>

CallDamerauLevenshtein == Enter("damerau_levenshtein")

CallPkgDamerauLevenshtein == Enter("pkg_damerau_levenshtein")

(* Lines 69-74: one cell of src/libdistance.py's damerau_levenshtein. *)
DamerauLevenshteinCell ==
    /\ pc = "loop"
    /\ fn = "damerau_levenshtein"
    /\ ~LoopDone(i, lhs, rhs)
    /\ d' = [d EXCEPT ![i][j] = DLCell(d, i, j, lhs, rhs)]
    /\ reads' = TransposedReads(i, j, lhs, rhs)
    /\ lowered' = IF DLCell(d, i, j, lhs, rhs) < BaseCell(d, i, j, lhs, rhs)
                  THEN lowered \cup {<<i, j>>} ELSE lowered
    /\ i' = NextCell(i, j, lhs)[1]
    /\ j' = NextCell(i, j, lhs)[2]
    /\ UNCHANGED <<lhs, rhs, pc, fn, result, ratio>>

(* Lines 40-45: one cell of the package's damerau_levenshtein. *)
PkgDamerauLevenshteinCell ==
    /\ pc = "loop"
    /\ fn = "pkg_damerau_levenshtein"
    /\ ~LoopDone(i, lhs, rhs)
    /\ d' = [d EXCEPT ![i][j] = pkg_DLCell(d, i, j, lhs, rhs)]
    /\ reads' = pkg_TransposedReads(i, j, lhs, rhs)
    /\ lowered' = IF pkg_DLCell(d, i, j, lhs, rhs) < BaseCell(d, i, j, lhs, rhs)
                  THEN lowered \cup {<<i, j>>} ELSE lowered
    /\ i' = NextCell(i, j, lhs)[1]
    /\ j' = NextCell(i, j, lhs)[2]
    /\ UNCHANGED <<lhs, rhs, pc, fn, result, ratio>>

(* Line 75: return Distance(d[-1][-1], lhs, rhs) *)
DamerauLevenshteinReturn ==
    /\ pc = "loop"
    /\ fn = "damerau_levenshtein"
    /\ LoopDone(i, lhs, rhs)
    /\ result' = Distance(PyLast(PyLast(d)), lhs, rhs)
    /\ pc' = "done"
    /\ UNCHANGED <<lhs, rhs, fn, d, i, j, reads, lowered, ratio>>

(* Line 46: return d[-1][-1] *)
PkgDamerauLevenshteinReturn ==
    /\ pc = "loop"
    /\ fn = "pkg_damerau_levenshtein"
    /\ LoopDone(i, lhs, rhs)
    /\ result' = [kind |-> "int", distance |-> PyLast(PyLast(d))]
    /\ pc' = "done"
    /\ UNCHANGED <<lhs, rhs, fn, d, i, j, reads, lowered, ratio>>

(* ratio() on the Distance a call returned. *)
CallRatio ==
    /\ pc = "done"
    /\ result.kind = "Distance"
    /\ ratio' = Ratio(result)
    /\ pc' = "ratio"
    /\ UNCHANGED <<lhs, rhs, fn, d, i, j, reads, lowered, result>>

Next ==
    \/ CallLevenshtein
    \/ CallHamming
    \/ CallPkgLevenshtein
    \/ CallPkgHamming
    \/ CallDamerauLevenshtein
    \/ CallPkgDamerauLevenshtein
    \/ DamerauLevenshteinCell
    \/ PkgDamerauLevenshteinCell
    \/ DamerauLevenshteinReturn
    \/ PkgDamerauLevenshteinReturn
    \/ CallRatio

Spec == Init /\ [][Next]_vars

---------------------------------------------------------------------------
(* Properties *)

Max2(a, b) == IF a >= b THEN a ELSE b

(* The reference edit distance of the prefixes l[1..a] and r[1..b]: an     *)
(* insertion or a deletion costs 1, a substitution 1, a match nothing.     *)
RECURSIVE EditDistance(_, _, _, _)
EditDistance(l, r, a, b) ==
    IF a = 0 THEN b
    ELSE IF b = 0 THEN a
    ELSE Min3(EditDistance(l, r, a - 1, b) + 1,
              EditDistance(l, r, a, b - 1) + 1,
              EditDistance(l, r, a - 1, b - 1)
                  + (IF l[a] = r[b] THEN 0 ELSE 1))

(* The number of positions at which two sequences of one length differ. *)
Differing(l, r) == Cardinality({k \in 1..Len(l) : l[k] # r[k]})

(* Cell (a, b) of the matrix has been written by the loops. *)
Written(a, b) ==
    /\ a \in 1..Len(rhs)
    /\ b \in 1..Len(lhs)
    /\ (a < i \/ (a = i /\ b < j))

(* Cell (a, b) lies at an adjacent transposition of the two inputs. *)
Swapped(a, b) ==
    /\ a >= 2
    /\ b >= 2
    /\ rhs[a] = lhs[b - 1]
    /\ rhs[a - 1] = lhs[b]

InDL == fn \in {"damerau_levenshtein", "pkg_damerau_levenshtein"}

(* C1: levenshtein(lhs, rhs) is the minimum number of single-element       *)
(* insertions, deletions and substitutions that turn lhs into rhs.         *)
C1_LevenshteinIsEditDistance ==
    (pc = "done" /\ fn \in {"levenshtein", "pkg_levenshtein"})
        => result.distance = EditDistance(lhs, rhs, Len(lhs), Len(rhs))

(* C2: for inputs that are not both empty, ratio() of the Distance of      *)
(* levenshtein, damerau_levenshtein and hamming lies in [0.0, 1.0], that   *)
(* is 0 <= 2*distance <= len(lhs) + len(rhs).                              *)
C2_RatioInUnitInterval ==
    (pc = "ratio" /\ Len(lhs) + Len(rhs) > 0)
        => /\ ratio.kind = "float"
           /\ 0 <= ratio.num
           /\ ratio.num <= ratio.den

C4_HammingLengthMismatch ==
    (pc = "done" /\ fn \in {"hamming", "pkg_hamming"})
        => /\ result.kind = "IndexError" <=> Len(lhs) # Len(rhs)
           /\ Len(lhs) # Len(rhs) => result = [kind |-> "IndexError"]
           /\ Len(lhs) = Len(rhs) => result.distance = Differing(lhs, rhs)

C4_Witness ==
    /\ pc = "done"
    /\ fn = "hamming"
    /\ Len(lhs) = 2
    /\ Len(rhs) = 1
    /\ lhs[1] = rhs[1]
    /\ result.kind = "IndexError"

(* C5: damerau_levenshtein(a, b) <= levenshtein(a, b). *)
C5_DamerauAtMostLevenshtein ==
    (pc = "done" /\ fn = "damerau_levenshtein")
        => result.distance <= levenshtein(lhs, rhs).distance

C5_Witness ==
    /\ pc = "done"
    /\ fn = "damerau_levenshtein"
    /\ lowered # {}
    /\ result.distance < levenshtein(lhs, rhs).distance

(* C6: levenshtein and damerau_levenshtein are symmetric in their two      *)
(* arguments.                                                              *)
C6_Symmetry ==
    /\ (pc = "done" /\ fn = "levenshtein")
           => result.distance = levenshtein(rhs, lhs).distance
    /\ (pc = "done" /\ fn = "damerau_levenshtein")
           => result.distance = damerau_levenshtein(rhs, lhs).distance

C6_Witness ==
    /\ pc = "done"
    /\ fn = "damerau_levenshtein"
    /\ Len(lhs) < Len(rhs)
    /\ lowered # {}
    /\ result.distance > 0
    /\ result.distance = damerau_levenshtein(rhs, lhs).distance

(* C7: ratio() on the Distance of two empty sequences yields a defined     *)
(* number and no division fault.                                           *)
C7_EmptyRatioDefined ==
    (pc = "ratio" /\ Len(lhs) + Len(rhs) = 0) => ratio.kind = "float"

(* C8: every Distance has distance >= 0; distance <= max(len(lhs),         *)
(* len(rhs)) for levenshtein and damerau_levenshtein, and distance <=      *)
(* len(lhs) for hamming.                                                   *)
C8_DistanceBounds ==
    (pc = "done" /\ result.kind = "Distance")
        => /\ result.distance >= 0
           /\ fn \in {"levenshtein", "damerau_levenshtein"}
                  => result.distance <= Max2(Len(lhs), Len(rhs))
           /\ fn = "hamming" => result.distance <= Len(lhs)

C8_Witness ==
    /\ pc = "done"
    /\ fn = "levenshtein"
    /\ Len(lhs) = 1
    /\ Len(rhs) = 2
    /\ result.distance = 2

(* C9 as claimed: a written cell (i, j) at an adjacent transposition, with *)
(* i >= 2 and j >= 2, holds min(v, d[i-2][j-2]), v being the value of the  *)
(* insert/delete/substitute step.                                          *)
C9_LooksBackTwo ==
    InDL => \A a \in 2..Len(rhs) : \A b \in 2..Len(lhs) :
                (Written(a, b) /\ Swapped(a, b))
                    => d[a][b] = Min2(BaseCell(d, a, b, lhs, rhs),
                                      d[a - 2][b - 2])

(* C9 amended: such a cell holds min(v, d[i-1][j-1]): the transposition    *)
(* step looks back one row and one column.                                 *)
C9_LooksBackOne ==
    InDL => \A a \in 2..Len(rhs) : \A b \in 2..Len(lhs) :
                (Written(a, b) /\ Swapped(a, b))
                    => d[a][b] = Min2(BaseCell(d, a, b, lhs, rhs),
                                      d[a - 1][b - 1])

C9_Witness ==
    /\ pc = "loop"
    /\ fn = "damerau_levenshtein"
    /\ \E a \in 2..Len(rhs) : \E b \in 2..Len(lhs) :
           /\ Written(a, b)
           /\ Swapped(a, b)
           /\ d[a][b] = d[a - 1][b - 1]
           /\ d[a][b] < BaseCell(d, a, b, lhs, rhs)
           /\ d[a][b] # d[a - 2][b - 2]

(* C10: every damerau_levenshtein of the repository tests and applies the  *)
(* transposition only when i >= 2 and j >= 2: no sequence element is read  *)
(* at a negative subscript and no cell with i < 2 or j < 2 is lowered by   *)
(* the transposition step.                                                 *)
C10_TranspositionGuarded ==
    InDL => /\ \A rd \in reads : rd[2] >= 0
            /\ \A c \in lowered : c[1] >= 2 /\ c[2] >= 2

=============================================================================
